---- MODULE Spec2Model ----
(***************************************************************************)
(* A model of ffi-result's `Result<T, E>` (src/src/lib.rs): a #[repr(C)]   *)
(* struct of a one-byte `kind` and a union `data` holding either the Ok    *)
(* value or the Err value in overlapping storage.                          *)
(*                                                                         *)
(* Payload values are instrumented: every value ever stored has an id, and *)
(* `ledger` counts, per id, how often it was moved out to the caller, how  *)
(* often a destructor ran on it, and how often that destructor ran through *)
(* the union field that was not the active one.  An entry leaves the ledger *)
(* once it is settled: no live object stores the value any more, and it    *)
(* was either moved out once or destructed once through the active field.  *)
(***************************************************************************)
EXTENDS Integers, Sequences, FiniteSets, TLC

\* ---------------------------------------------------------------- bounds
MaxVal == 1
MaxSize == 8

\* The payload values of T and of E.
Vals == 0..MaxVal

\* The caller's two variables: no operation takes more than two objects.
Slots == {1, 2}

\* ------------------------------------------------------------ ResultKind
\* #[repr(u8)] enum ResultKind { Ok, Err }: discriminants 0 and 1.
ResultKind_Ok == 0
ResultKind_Err == 1

VARIABLES
    objs,    \* the live owned Result<T, E> objects, by the caller's variable
    view,    \* <<>> or <<v>>: the outstanding Result<&T, &E> / Result<&mut T, &mut E>
    ledger,  \* per payload id: [handed, dropped, inactive]
    last,    \* what the last operation was and what it returned
    lay      \* the type parameters' sizes and the computed layout

vars == <<objs, view, ledger, last, lay>>

\* ------------------------------------------------------- payload values
\* An owned payload value of type T ("T") or E ("E").
Cell(id, v, ty) == [id |-> id, val |-> v, ty |-> ty]

\* A reference &T / &mut T into field `f` of the object in slot `o`.
Ref(o, f) == [slot |-> o, field |-> f]

IsRef(c) == "slot" \in DOMAIN c

FieldTy(f) == IF f = "ok" THEN "T" ELSE "E"

\* ------------------------------------------------------------ ResultData
\* union ResultData { ok: ManuallyDrop<T>, err: ManuallyDrop<E> }: a value
\* of the union is a record with the one field that was written.
ResultData_ok(t) == [ok |-> t]
ResultData_err(e) == [err |-> e]

\* The field of the union that holds an initialized value.
Active(d) == CHOOSE f \in DOMAIN d : TRUE

\* Reading field f of the union.  Both fields start at the same offset, so a
\* read of the field that was not written yields the bytes of the other one.
Load(d, f) == IF f \in DOMAIN d THEN d[f] ELSE d[Active(d)]

\* The value a Result stores (x is a Result).
Stored(x) == Load(x.data, Active(x.data))

\* ---------------------------------------------------------------- ledger
NewEntry == [handed |-> 0, dropped |-> 0, inactive |-> 0]

\* A fresh instrumented value comes into being, under the first unused id.
FreshId(L) == CHOOSE i \in 1..(Cardinality(DOMAIN L) + 1) :
                  i \notin DOMAIN L /\ \A j \in 1..(i - 1) : j \in DOMAIN L
Alloc(L) == [i \in DOMAIN L \cup {FreshId(L)} |-> IF i \in DOMAIN L THEN L[i] ELSE NewEntry]

\* The value is moved out to the caller (a reference is not a move).
Hand(L, c) == IF IsRef(c) THEN L ELSE [L EXCEPT ![c.id].handed = @ + 1]

\* The destructor of FieldTy(f) runs on the bytes of field f.  Dropping a
\* reference runs nothing.
ManuallyDrop_drop(L, d, f) ==
    LET c == Load(d, f)
    IN  IF IsRef(c) THEN L
        ELSE [L EXCEPT ![c.id].dropped = @ + 1,
                       ![c.id].inactive = @ + (IF f \in DOMAIN d THEN 0 ELSE 1)]

\* ----------------------------------------------------------- return values
None == [tag |-> "None"]
Some(c) == [tag |-> "Some", val |-> c]
CoreOk(c) == [tag |-> "Ok", val |-> c]
CoreErr(c) == [tag |-> "Err", val |-> c]
Bool(b) == [tag |-> "Bool", b |-> b]
Unit == [tag |-> "Unit"]

\* -------------------------------------------------------------- Result
new_ok(t) == [kind |-> ResultKind_Ok, data |-> ResultData_ok(t)]

new_err(e) == [kind |-> ResultKind_Err, data |-> ResultData_err(e)]

is_ok(self) == self.kind = ResultKind_Ok
is_err(self) == self.kind = ResultKind_Err

kind(self) == self.kind

\* impl Drop for Result: the destructor of the arm `kind` names.
drop(L, self) ==
    IF self.kind = ResultKind_Ok
    THEN ManuallyDrop_drop(L, self.data, "ok")
    ELSE ManuallyDrop_drop(L, self.data, "err")

\* std::mem::forget(self): self goes away and its Drop does not run.
forget_missing(L, self) == drop(L, self)
forget(L, self) == L

\* as_ref / as_mut of the object in slot o of heap H.
as_ref_fixed_arm(H, o) ==
    [kind |-> H[o].kind, data |-> ResultData_ok(Ref(o, "ok"))]
as_ref(H, o) ==
    [kind |-> H[o].kind,
     data |-> IF H[o].kind = ResultKind_Ok
              THEN ResultData_ok(Ref(o, "ok"))
              ELSE ResultData_err(Ref(o, "err"))]

as_mut_fixed_arm(H, o) ==
    [kind |-> H[o].kind, data |-> ResultData_ok(Ref(o, "ok"))]
as_mut(H, o) ==
    [kind |-> H[o].kind,
     data |-> IF H[o].kind = ResultKind_Ok
              THEN ResultData_ok(Ref(o, "ok"))
              ELSE ResultData_err(Ref(o, "err"))]

\* The consuming operations return [ret, L]: the value returned and the
\* ledger after the destructors the operation ran.
ok_no_drop(L, self) ==
    IF self.kind = ResultKind_Ok
    THEN [ret |-> Some(Load(self.data, "ok")), L |-> forget(L, self)]
    ELSE [ret |-> None, L |-> forget(L, self)]
ok(L, self) ==
    LET k == self.kind
        data == self.data
        L1 == forget(L, self)
    IN  IF k = ResultKind_Ok
        THEN [ret |-> Some(Load(data, "ok")), L |-> L1]
        ELSE [ret |-> None, L |-> ManuallyDrop_drop(L1, data, "err")]

err(L, self) ==
    LET k == self.kind
        data == self.data
        L1 == forget(L, self)
    IN  IF k = ResultKind_Err
        THEN [ret |-> Some(Load(data, "err")), L |-> L1]
        ELSE [ret |-> None, L |-> ManuallyDrop_drop(L1, data, "ok")]

into_result(L, self) ==
    LET k == self.kind
        data == self.data
        L1 == forget(L, self)
    IN  [ret |-> IF k = ResultKind_Ok
                 THEN CoreOk(Load(data, "ok"))
                 ELSE CoreErr(Load(data, "err")),
         L |-> L1]

from_result_all_ok(result) == new_ok(result.val)
from_result(result) ==
    IF result.tag = "Ok" THEN new_ok(result.val) ELSE new_err(result.val)

\* impl From<core::result::Result<T, E>> for Result<T, E>
From_core(val) == from_result(val)

\* impl From<Result<T, E>> for core::result::Result<T, E>
Into_core(L, val) == into_result(L, val)

\* The caller's closures handed to map / map_err.
Ops == {"succ", "zero"}
Apply(f, v) == IF f = "succ" THEN (v + 1) % (MaxVal + 1) ELSE 0

\* op(t): the closure takes ownership of t and makes a new value of type ty.
Call(L, f, t, ty) ==
    [ret |-> Cell(FreshId(L), Apply(f, t.val), ty), L |-> Hand(Alloc(L), t)]

\* map / map_err return [ret, L, calls]: calls counts the invocations of op.
map_both_arms(L, self, f) ==
    LET r == into_result(L, self)
        c == Call(r.L, f, r.ret.val, IF r.ret.tag = "Ok" THEN "T" ELSE "E")
    IN  [ret |-> From_core([tag |-> r.ret.tag, val |-> c.ret]), L |-> c.L, calls |-> 1]
map(L, self, f) ==
    LET r == into_result(L, self)
    IN  IF r.ret.tag = "Ok"
        THEN LET c == Call(r.L, f, r.ret.val, "T")
             IN  [ret |-> From_core(CoreOk(c.ret)), L |-> c.L, calls |-> 1]
        ELSE [ret |-> From_core(r.ret), L |-> r.L, calls |-> 0]

map_err(L, self, f) ==
    LET r == into_result(L, self)
    IN  IF r.ret.tag = "Err"
        THEN LET c == Call(r.L, f, r.ret.val, "E")
             IN  [ret |-> From_core(CoreErr(c.ret)), L |-> c.L, calls |-> 1]
        ELSE [ret |-> From_core(r.ret), L |-> r.L, calls |-> 0]

\* The fatal path of core's unwrap/expect: the diagnostic shows msg and the
\* mismatched value, which is destructed as the failure unwinds.
Value(c) == [tag |-> "Value", val |-> c]
Fatal(msg, c) == [tag |-> "Fatal", msg |-> msg, shown |-> c.val]
core_drop(L, c) == IF IsRef(c) THEN L ELSE [L EXCEPT ![c.id].dropped = @ + 1]

\* unwrap / expect / unwrap_err / expect_err return [ret, L, fatal].
core_expect(r, msg) ==
    IF r.ret.tag = "Ok"
    THEN [ret |-> Value(r.ret.val), L |-> r.L, fatal |-> FALSE]
    ELSE [ret |-> Fatal(msg, r.ret.val), L |-> core_drop(r.L, r.ret.val), fatal |-> TRUE]

core_expect_err(r, msg) ==
    IF r.ret.tag = "Err"
    THEN [ret |-> Value(r.ret.val), L |-> r.L, fatal |-> FALSE]
    ELSE [ret |-> Fatal(msg, r.ret.val), L |-> core_drop(r.L, r.ret.val), fatal |-> TRUE]

unwrap_err_wrong_arm(L, self) == core_expect(into_result(L, self), "unwrap_err")
unwrap_err(L, self) == core_expect_err(into_result(L, self), "unwrap_err")
expect_err(L, self, msg) == core_expect_err(into_result(L, self), msg)
unwrap(L, self) == core_expect(into_result(L, self), "unwrap")
expect(L, self, msg) == core_expect(into_result(L, self), msg)

\* impl Debug: the kind and the active payload.
fmt(self) ==
    [tag |-> "Str", kind |-> self.kind,
     data |-> IF self.kind = ResultKind_Ok
              THEN Load(self.data, "ok").val
              ELSE Load(self.data, "err").val]

\* impl Clone: T::clone / E::clone of the arm `kind` names makes the value id.
clone_bitwise(self, id) == [kind |-> self.kind, data |-> self.data]
clone(self, id) ==
    [kind |-> self.kind,
     data |-> IF self.kind = ResultKind_Ok
              THEN LET c == Load(self.data, "ok")
                   IN  ResultData_ok(Cell(id, c.val, c.ty))
              ELSE LET c == Load(self.data, "err")
                   IN  ResultData_err(Cell(id, c.val, c.ty))]

\* The value a reference points to.
Deref(H, r) == Load(H[r.slot].data, r.field)

\* impl PartialEq: returns [ret, L].
eq_payload_only(H, L, a, b) ==
    [ret |-> Stored(H[a]).val = Stored(H[b]).val, L |-> L]
eq(H, L, a, b) ==
    LET ra == into_result(L, as_ref(H, a))
        rb == into_result(ra.L, as_ref(H, b))
    IN  [ret |-> IF ra.ret.tag = "Ok" /\ rb.ret.tag = "Ok"
                 THEN Deref(H, ra.ret.val).val = Deref(H, rb.ret.val).val
                 ELSE IF ra.ret.tag = "Err" /\ rb.ret.tag = "Err"
                 THEN Deref(H, ra.ret.val).val = Deref(H, rb.ret.val).val
                 ELSE FALSE,
         L |-> rb.L]

\* `*r = v` through a &mut T: the old value is destructed as a FieldTy(r.field)
\* and the bytes of the field are overwritten.  Returns [H, L].
Assign(H, L, r, v) ==
    LET L1 == ManuallyDrop_drop(L, H[r.slot].data, r.field)
        c == Cell(FreshId(L1), v, FieldTy(r.field))
    IN  [H |-> [H EXCEPT ![r.slot].data = (r.field :> c)], L |-> Alloc(L1)]

\* ------------------------------------------------------------ the caller
\* The caller holds owned Results in the variables Slots, at most one view
\* at a time, and follows the borrow rules: an object with an outstanding
\* view is not moved, dropped or mutably borrowed, and one with an
\* outstanding mutable view is not read either.
Live(o) == o \in DOMAIN objs
\* A new object takes the caller's first unused variable.
Free(o) == o \in Slots \ DOMAIN objs /\ \A p \in Slots \ DOMAIN objs : o <= p
ViewOf == Stored(view[1].res).slot
Borrowed(o) == view # <<>> /\ ViewOf = o
MutBorrowed(o) == Borrowed(o) /\ view[1].mut
CanMove(o) == Live(o) /\ ~Borrowed(o)
CanRead(o) == Live(o) /\ ~MutBorrowed(o)

Put(H, o, x) == [p \in DOMAIN H \cup {o} |-> IF p = o THEN x ELSE H[p]]
Take(H, o) == [p \in DOMAIN H \ {o} |-> H[p]]

\* The value an operation returned is handed to the caller.
HandRet(L, ret) == IF ret.tag \in {"Some", "Ok", "Err", "Value"} THEN Hand(L, ret.val) ELSE L

\* The ids of the values the objects of heap H store.
Held(H) == {Stored(H[o]).id : o \in DOMAIN H}

\* A value is settled when no object stores it any more and it was either
\* moved out once or destructed once, through the active field.
Settled(L, H, i) ==
    /\ i \notin Held(H)
    /\ L[i].handed + L[i].dropped = 1
    /\ L[i].inactive = 0
SettledNow(L, H) ==
    {[id |-> i, handed |-> L[i].handed, dropped |-> L[i].dropped] :
        i \in {j \in DOMAIN L : Settled(L, H, j)}}
Settle(L, H) == [i \in {j \in DOMAIN L : ~Settled(L, H, j)} |-> L[i]]

NoSelf == [tag |-> "None"]
Slot(o) == [tag |-> "Slot", slot |-> o, obj |-> objs[o]]
Written(v) == [tag |-> "Written", v |-> v]
Op(f) == [tag |-> "Op", f |-> f]

\* The end of an operation that leaves the heap H and the ledger L.
Finish(op, o, self, arg, ret, fatal, calls, H, L) ==
    /\ objs' = H
    /\ ledger' = Settle(L, H)
    /\ last' = [op |-> op, slot |-> o, self |-> self, arg |-> arg, ret |-> ret,
                fatal |-> fatal, calls |-> calls, settled |-> SettledNow(L, H)]

Msgs == {"msg"}

Init ==
    /\ objs = <<>>
    /\ view = <<>>
    /\ ledger = <<>>
    /\ last = [op |-> "init", slot |-> 0, self |-> NoSelf, arg |-> None, ret |-> Unit,
               fatal |-> FALSE, calls |-> 0, settled |-> {}]
    /\ lay = [pc |-> "idle"]

\* ------------------------------------------------------------ construction
NewOk(o, v) ==
    /\ Free(o)
    /\ Finish("new_ok", o, NoSelf, None, Unit, FALSE, 0,
              Put(objs, o, new_ok(Cell(FreshId(ledger), v, "T"))), Alloc(ledger))
    /\ UNCHANGED <<view, lay>>

NewErr(o, v) ==
    /\ Free(o)
    /\ Finish("new_err", o, NoSelf, None, Unit, FALSE, 0,
              Put(objs, o, new_err(Cell(FreshId(ledger), v, "E"))), Alloc(ledger))
    /\ UNCHANGED <<view, lay>>

\* The caller's native results: Ok(t) or Err(e) of a fresh value.
Native(tag, id, v) == IF tag = "Ok" THEN CoreOk(Cell(id, v, "T")) ELSE CoreErr(Cell(id, v, "E"))

FromResult(o, tag, v) ==
    /\ Free(o)
    /\ LET r == Native(tag, FreshId(ledger), v)
       IN  Finish("from_result", o, NoSelf, r, Unit, FALSE, 0,
                  Put(objs, o, from_result(r)), Alloc(ledger))
    /\ UNCHANGED <<view, lay>>

FromCore(o, tag, v) ==
    /\ Free(o)
    /\ LET r == Native(tag, FreshId(ledger), v)
       IN  Finish("from", o, NoSelf, r, Unit, FALSE, 0,
                  Put(objs, o, From_core(r)), Alloc(ledger))
    /\ UNCHANGED <<view, lay>>

\* -------------------------------------------------------------- inspection
IsOk(o) ==
    /\ CanRead(o)
    /\ Finish("is_ok", o, objs[o], None, Bool(is_ok(objs[o])), FALSE, 0, objs, ledger)
    /\ UNCHANGED <<view, lay>>

IsErr(o) ==
    /\ CanRead(o)
    /\ Finish("is_err", o, objs[o], None, Bool(is_err(objs[o])), FALSE, 0, objs, ledger)
    /\ UNCHANGED <<view, lay>>

Kind(o) ==
    /\ CanRead(o)
    /\ Finish("kind", o, objs[o], None, [tag |-> "Kind", kind |-> kind(objs[o])],
              FALSE, 0, objs, ledger)
    /\ UNCHANGED <<view, lay>>

\* data() hands out &ResultData; safe code cannot read a union field, so
\* the caller learns nothing from it.
Data(o) ==
    /\ CanRead(o)
    /\ Finish("data", o, objs[o], None, Unit, FALSE, 0, objs, ledger)
    /\ UNCHANGED <<view, lay>>

Fmt(o) ==
    /\ CanRead(o)
    /\ Finish("fmt", o, objs[o], None, fmt(objs[o]), FALSE, 0, objs, ledger)
    /\ UNCHANGED <<view, lay>>

Eq(a, b) ==
    /\ CanRead(a) /\ CanRead(b)
    /\ LET r == eq(objs, ledger, a, b)
       IN  Finish("eq", a, objs[a], Slot(b), Bool(r.ret), FALSE, 0, objs, r.L)
    /\ UNCHANGED <<view, lay>>

Clone(o, dst) ==
    /\ CanRead(o) /\ Free(dst)
    /\ Finish("clone", dst, objs[o], Slot(o), Unit, FALSE, 0,
              Put(objs, dst, clone(objs[o], FreshId(ledger))), Alloc(ledger))
    /\ UNCHANGED <<view, lay>>

\* ------------------------------------------------------------------ views
AsRef(o) ==
    /\ CanRead(o) /\ view = <<>>
    /\ view' = <<[res |-> as_ref(objs, o), mut |-> FALSE]>>
    /\ Finish("as_ref", o, objs[o], None, Unit, FALSE, 0, objs, ledger)
    /\ UNCHANGED lay

AsMut(o) ==
    /\ CanMove(o) /\ view = <<>>
    /\ view' = <<[res |-> as_mut(objs, o), mut |-> TRUE]>>
    /\ Finish("as_mut", o, objs[o], None, Unit, FALSE, 0, objs, ledger)
    /\ UNCHANGED lay

\* The view is itself a Result (of references): the caller consumes it with
\* ok / err / into_result, or lets it go out of scope.
ViewTake(op) ==
    /\ view # <<>>
    /\ LET v == view[1].res
           r == IF op = "ok" THEN ok(ledger, v)
                ELSE IF op = "err" THEN err(ledger, v)
                ELSE into_result(ledger, v)
       IN  Finish("view_" \o op, ViewOf, v, None, r.ret, FALSE, 0,
                  objs, HandRet(r.L, r.ret))
    /\ view' = <<>>
    /\ UNCHANGED lay

ViewDrop ==
    /\ view # <<>>
    /\ Finish("view_drop", ViewOf, view[1].res, None, Unit, FALSE, 0,
              objs, drop(ledger, view[1].res))
    /\ view' = <<>>
    /\ UNCHANGED lay

\* `*r = v` with r the &mut T or &mut E the as_mut view holds.
ViewWrite(v) ==
    /\ view # <<>> /\ view[1].mut
    /\ LET r == into_result(ledger, view[1].res)
           w == Assign(objs, r.L, r.ret.val, v)
       IN  Finish("view_write", ViewOf, view[1].res, Written(v), r.ret, FALSE, 0, w.H, w.L)
    /\ view' = <<>>
    /\ UNCHANGED lay

\* ------------------------------------------------------------ consumption
Ok(o) ==
    /\ CanMove(o)
    /\ LET r == ok(ledger, objs[o])
       IN  Finish("ok", o, objs[o], None, r.ret, FALSE, 0,
                  Take(objs, o), HandRet(r.L, r.ret))
    /\ UNCHANGED <<view, lay>>

Err(o) ==
    /\ CanMove(o)
    /\ LET r == err(ledger, objs[o])
       IN  Finish("err", o, objs[o], None, r.ret, FALSE, 0,
                  Take(objs, o), HandRet(r.L, r.ret))
    /\ UNCHANGED <<view, lay>>

IntoResult(o) ==
    /\ CanMove(o)
    /\ LET r == into_result(ledger, objs[o])
       IN  Finish("into_result", o, objs[o], None, r.ret, FALSE, 0,
                  Take(objs, o), HandRet(r.L, r.ret))
    /\ UNCHANGED <<view, lay>>

IntoCore(o) ==
    /\ CanMove(o)
    /\ LET r == Into_core(ledger, objs[o])
       IN  Finish("into", o, objs[o], None, r.ret, FALSE, 0,
                  Take(objs, o), HandRet(r.L, r.ret))
    /\ UNCHANGED <<view, lay>>

\* let x = x.map(op): the result takes the consumed object's variable.
Map(o, f) ==
    /\ CanMove(o)
    /\ LET r == map(ledger, objs[o], f)
       IN  Finish("map", o, objs[o], Op(f), Unit, FALSE, r.calls,
                  Put(objs, o, r.ret), r.L)
    /\ UNCHANGED <<view, lay>>

MapErr(o, f) ==
    /\ CanMove(o)
    /\ LET r == map_err(ledger, objs[o], f)
       IN  Finish("map_err", o, objs[o], Op(f), Unit, FALSE, r.calls,
                  Put(objs, o, r.ret), r.L)
    /\ UNCHANGED <<view, lay>>

Unwrap(o) ==
    /\ CanMove(o)
    /\ LET r == unwrap(ledger, objs[o])
       IN  Finish("unwrap", o, objs[o], None, r.ret, r.fatal, 0,
                  Take(objs, o), HandRet(r.L, r.ret))
    /\ UNCHANGED <<view, lay>>

Expect(o, msg) ==
    /\ CanMove(o)
    /\ LET r == expect(ledger, objs[o], msg)
       IN  Finish("expect", o, objs[o], None, r.ret, r.fatal, 0,
                  Take(objs, o), HandRet(r.L, r.ret))
    /\ UNCHANGED <<view, lay>>

UnwrapErr(o) ==
    /\ CanMove(o)
    /\ LET r == unwrap_err(ledger, objs[o])
       IN  Finish("unwrap_err", o, objs[o], None, r.ret, r.fatal, 0,
                  Take(objs, o), HandRet(r.L, r.ret))
    /\ UNCHANGED <<view, lay>>

ExpectErr(o, msg) ==
    /\ CanMove(o)
    /\ LET r == expect_err(ledger, objs[o], msg)
       IN  Finish("expect_err", o, objs[o], None, r.ret, r.fatal, 0,
                  Take(objs, o), HandRet(r.L, r.ret))
    /\ UNCHANGED <<view, lay>>

\* The variable goes out of scope: impl Drop runs.
Drop(o) ==
    /\ CanMove(o)
    /\ Finish("drop", o, objs[o], None, Unit, FALSE, 0,
              Take(objs, o), drop(ledger, objs[o]))
    /\ UNCHANGED <<view, lay>>

\* ------------------------------------------------------------- layout
\* The sizes and alignments of T and E: an alignment is a power of two and
\* a size is a multiple of the alignment.
Aligns == {1, 2, 4, 8}
Types == {[size |-> sz, align |-> a] : sz \in 0..MaxSize, a \in Aligns}
Sized == {ty \in Types : ty.size % ty.align = 0}

Max(a, b) == IF a >= b THEN a ELSE b
RoundUp(n, a) == ((n + a - 1) \div a) * a

\* #[repr(u8)] enum ResultKind: one byte.
Repr_u8 == [size |-> 1, align |-> 1]

\* ManuallyDrop<T> is #[repr(transparent)]: the layout of T.
ManuallyDrop(ty) == ty

\* #[repr(C)] union of two fields: both at offset 0, the size of the larger
\* one rounded up to the alignment, the alignment of the stricter one.
ReprC_union(f1, f2) ==
    [align |-> Max(f1.align, f2.align),
     size |-> RoundUp(Max(f1.size, f2.size), Max(f1.align, f2.align)),
     offset1 |-> 0, offset2 |-> 0]

\* #[repr(C)] struct of two fields: in declaration order, each at the first
\* offset its alignment allows, the size rounded up to the alignment.
ReprC_struct_packed(f1, f2) ==
    [align |-> Max(f1.align, f2.align),
     size |-> f1.size + f2.size,
     offset1 |-> 0, offset2 |-> f1.size]
ReprC_struct(f1, f2) ==
    LET al == Max(f1.align, f2.align)
        o2 == RoundUp(f1.size, f2.align)
    IN  [align |-> al, size |-> RoundUp(o2 + f2.size, al),
         offset1 |-> 0, offset2 |-> o2]

\* The layout of Result<T, E> for T of layout t and E of layout e.
Layout(t, e) ==
    LET data == ReprC_union(ManuallyDrop(t), ManuallyDrop(e))
        res == ReprC_struct(Repr_u8, data)
    IN  [size |-> res.size, align |-> res.align,
         kind_offset |-> res.offset1, kind_size |-> Repr_u8.size,
         tag_ok |-> ResultKind_Ok, tag_err |-> ResultKind_Err,
         data_offset |-> res.offset2, data_size |-> data.size,
         data_align |-> data.align,
         ok_offset |-> res.offset2 + data.offset1,
         err_offset |-> res.offset2 + data.offset2]

InitLayout ==
    /\ objs = <<>>
    /\ view = <<>>
    /\ ledger = <<>>
    /\ last = [op |-> "init", slot |-> 0, self |-> NoSelf, arg |-> None, ret |-> Unit,
               fatal |-> FALSE, calls |-> 0, settled |-> {}]
    /\ \E t \in Sized, e \in Sized : lay = [pc |-> "types", T |-> t, E |-> e]

\* The compiler lays out Result<T, E>.
ComputeLayout ==
    /\ lay.pc = "types"
    /\ lay' = [pc |-> "done", T |-> lay.T, E |-> lay.E, out |-> Layout(lay.T, lay.E)]
    /\ UNCHANGED <<objs, view, ledger, last>>

NextLayout == ComputeLayout

SpecLayout == InitLayout /\ [][NextLayout]_vars

Next ==
    \/ \E o \in Slots, v \in Vals : NewOk(o, v) \/ NewErr(o, v)
    \/ \E o \in Slots, tag \in {"Ok", "Err"}, v \in Vals : FromResult(o, tag, v) \/ FromCore(o, tag, v)
    \/ \E o \in Slots : IsOk(o) \/ IsErr(o) \/ Kind(o) \/ Data(o) \/ Fmt(o)
    \/ \E a \in Slots, b \in Slots : Eq(a, b) \/ Clone(a, b)
    \/ \E o \in Slots : AsRef(o) \/ AsMut(o)
    \/ \E op \in {"ok", "err", "into_result"} : ViewTake(op)
    \/ ViewDrop
    \/ \E v \in Vals : ViewWrite(v)
    \/ \E o \in Slots : Ok(o) \/ Err(o) \/ IntoResult(o) \/ IntoCore(o)
    \/ \E o \in Slots, f \in Ops : Map(o, f) \/ MapErr(o, f)
    \/ \E o \in Slots : Unwrap(o) \/ UnwrapErr(o)
    \/ \E o \in Slots, msg \in Msgs : Expect(o, msg) \/ ExpectErr(o, msg)
    \/ \E o \in Slots : Drop(o)

Spec == Init /\ [][Next]_vars

\* ============================================================ properties

\* The payload of x holds an initialized, not yet destructed, not moved-out
\* value of the type of field f.
HoldsOwned(x, f) ==
    /\ DOMAIN x.data = {f}
    /\ ~IsRef(x.data[f])
    /\ x.data[f].ty = FieldTy(f)
    /\ x.data[f].id \in DOMAIN ledger
    /\ ledger[x.data[f].id].dropped = 0
    /\ ledger[x.data[f].id].handed = 0

\* The payload of the view x holds a reference to the initialized field f
\* of a live object.
HoldsRef(x, f) ==
    /\ DOMAIN x.data = {f}
    /\ IsRef(x.data[f])
    /\ x.data[f].field = f
    /\ x.data[f].slot \in DOMAIN objs
    /\ HoldsOwned(objs[x.data[f].slot], f)

\* C1: after every safe operation every live Result has kind Ok exactly when
\* its payload holds an initialized, not yet destructed T, and kind Err
\* exactly when it holds an initialized, not yet destructed E (for a view:
\* a reference to such a value).
C1_KindMatchesPayload ==
    /\ \A o \in DOMAIN objs :
          /\ objs[o].kind = ResultKind_Ok <=> HoldsOwned(objs[o], "ok")
          /\ objs[o].kind = ResultKind_Err <=> HoldsOwned(objs[o], "err")
    /\ \A i \in DOMAIN view :
          /\ view[i].res.kind = ResultKind_Ok <=> HoldsRef(view[i].res, "ok")
          /\ view[i].res.kind = ResultKind_Err <=> HoldsRef(view[i].res, "err")

\* An Err object was written through its as_mut view while an Ok object is live.
C1_Witness ==
    /\ last.op = "view_write"
    /\ last.self.kind = ResultKind_Err
    /\ \E o \in DOMAIN objs : objs[o].kind = ResultKind_Ok

\* C2: every value stored is moved out to the caller exactly once or
\* destructed exactly once, and never destructed through the inactive
\* field: whatever the ledger still lists is stored in exactly one live
\* object, untouched, and every stored value is listed.
C2_ExactlyOnce ==
    /\ \A i \in DOMAIN ledger :
          /\ ledger[i].handed = 0 /\ ledger[i].dropped = 0 /\ ledger[i].inactive = 0
          /\ Cardinality({o \in DOMAIN objs : Stored(objs[o]).id = i}) = 1
    /\ \A o \in DOMAIN objs : Stored(objs[o]).id \in DOMAIN ledger

\* A fatal unwrap destructed the value it found while another object lives on.
C2_Witness ==
    /\ last.fatal
    /\ \E e \in last.settled : e.dropped = 1 /\ e.handed = 0
    /\ DOMAIN objs # {}

\* C3: into_result(from_result(r)) = r for every native r, and
\* from_result(into_result(x)) has the kind and the payload of x; the From
\* impls do the same.
C3_RoundTrip ==
    /\ last.op \in {"from_result", "from"} =>
          /\ into_result(ledger, objs[last.slot]).ret = last.arg
          /\ Into_core(ledger, objs[last.slot]).ret = last.arg
    /\ last.op \in {"into_result", "into"} =>
          /\ from_result(last.ret).kind = last.self.kind
          /\ from_result(last.ret).data = last.self.data
          /\ From_core(last.ret) = from_result(last.ret)

\* A native Err(e) was wrapped.
C3_Witness ==
    /\ last.op = "from_result"
    /\ last.arg.tag = "Err"
    /\ objs[last.slot].kind = ResultKind_Err

\* C4: map calls op exactly once on an Ok object, whose ok() is then
\* Some(op(t)), and never on an Err object, whose err() is still Some(e);
\* map_err is the mirror.
C4_Map ==
    /\ last.op = "map" /\ last.self.kind = ResultKind_Ok =>
          /\ last.calls = 1
          /\ ok(ledger, objs[last.slot]).ret.tag = "Some"
          /\ ok(ledger, objs[last.slot]).ret.val.val = Apply(last.arg.f, Stored(last.self).val)
          /\ ok(ledger, objs[last.slot]).ret.val.ty = "T"
    /\ last.op = "map" /\ last.self.kind = ResultKind_Err =>
          /\ last.calls = 0
          /\ err(ledger, objs[last.slot]).ret = Some(Stored(last.self))
    /\ last.op = "map_err" /\ last.self.kind = ResultKind_Err =>
          /\ last.calls = 1
          /\ err(ledger, objs[last.slot]).ret.tag = "Some"
          /\ err(ledger, objs[last.slot]).ret.val.val = Apply(last.arg.f, Stored(last.self).val)
          /\ err(ledger, objs[last.slot]).ret.val.ty = "E"
    /\ last.op = "map_err" /\ last.self.kind = ResultKind_Ok =>
          /\ last.calls = 0
          /\ ok(ledger, objs[last.slot]).ret = Some(Stored(last.self))

\* map ran on an Err object with an op that would have changed the value.
C4_Witness ==
    /\ last.op = "map"
    /\ last.self.kind = ResultKind_Err
    /\ Apply(last.arg.f, Stored(last.self).val) # Stored(last.self).val

\* C5: ok() on an Ok object returns Some(value) and runs no destructor; on an
\* Err object it destructs the error once and returns None; the consumed
\* object's Drop does not run.  err() is the mirror.
C5_OkErr ==
    /\ last.op = "ok" /\ last.self.kind = ResultKind_Ok =>
          /\ last.ret = Some(Stored(last.self))
          /\ last.settled = {[id |-> Stored(last.self).id, handed |-> 1, dropped |-> 0]}
    /\ last.op = "ok" /\ last.self.kind = ResultKind_Err =>
          /\ last.ret = None
          /\ last.settled = {[id |-> Stored(last.self).id, handed |-> 0, dropped |-> 1]}
    /\ last.op = "err" /\ last.self.kind = ResultKind_Err =>
          /\ last.ret = Some(Stored(last.self))
          /\ last.settled = {[id |-> Stored(last.self).id, handed |-> 1, dropped |-> 0]}
    /\ last.op = "err" /\ last.self.kind = ResultKind_Ok =>
          /\ last.ret = None
          /\ last.settled = {[id |-> Stored(last.self).id, handed |-> 0, dropped |-> 1]}
    /\ last.op \in {"ok", "err"} =>
          /\ last.slot \notin DOMAIN objs
          /\ Stored(last.self).id \notin DOMAIN ledger

\* ok() ran on an Err object.
C5_Witness == last.op = "ok" /\ last.self.kind = ResultKind_Err /\ last.ret = None

\* C6: unwrap and expect return the value exactly on an Ok object and are
\* fatal on an Err object; unwrap_err and expect_err are the mirror; nothing
\* else is fatal.
C6_Fatal ==
    /\ last.fatal <=>
          \/ last.op \in {"unwrap", "expect"} /\ last.self.kind = ResultKind_Err
          \/ last.op \in {"unwrap_err", "expect_err"} /\ last.self.kind = ResultKind_Ok
    /\ last.op \in {"unwrap", "expect", "unwrap_err", "expect_err"} =>
          IF last.fatal
          THEN last.ret.tag = "Fatal"
          ELSE last.ret = Value(Stored(last.self))

\* unwrap_err ran on an Ok object.
C6_Witness == last.op = "unwrap_err" /\ last.self.kind = ResultKind_Ok /\ last.fatal

\* C7: a == b exactly when the kinds match and the active payloads are
\* equal; eq is never fatal, leaves both operands as they were and runs no
\* destructor.
C7_Eq ==
    last.op = "eq" =>
        /\ last.ret.b <=>
              /\ objs[last.slot].kind = objs[last.arg.slot].kind
              /\ Stored(objs[last.slot]).val = Stored(objs[last.arg.slot]).val
        /\ ~last.fatal
        /\ objs[last.slot] = last.self
        /\ objs[last.arg.slot] = last.arg.obj
        /\ last.settled = {}
        /\ ledger[Stored(objs[last.slot]).id] = NewEntry
        /\ ledger[Stored(objs[last.arg.slot]).id] = NewEntry

\* new_ok(v) was compared with new_err(v).
C7_Witness ==
    /\ last.op = "eq"
    /\ objs[last.slot].kind = ResultKind_Ok
    /\ objs[last.arg.slot].kind = ResultKind_Err
    /\ Stored(objs[last.slot]).val = Stored(objs[last.arg.slot]).val
    /\ ~last.ret.b

\* A step leaves the object in slot o alone: the object and the ledger's
\* entry of its value are the same before and after.
Untouched(o) ==
    /\ o \in DOMAIN objs'
    /\ objs'[o] = objs[o]
    /\ Stored(objs[o]).id \in DOMAIN ledger'
    /\ ledger'[Stored(objs[o]).id] = ledger[Stored(objs[o]).id]

\* What clone() returns: the kind, the active field and the value of the
\* original, under an id of its own, with the original as it was.
C8_CloneResult ==
    last.op = "clone" =>
        /\ objs[last.slot].kind = objs[last.arg.slot].kind
        /\ DOMAIN objs[last.slot].data = DOMAIN objs[last.arg.slot].data
        /\ Stored(objs[last.slot]).val = Stored(objs[last.arg.slot]).val
        /\ Stored(objs[last.slot]).id # Stored(objs[last.arg.slot]).id
        /\ eq(objs, ledger, last.arg.slot, last.slot).ret
        /\ objs[last.arg.slot] = last.self

\* C8: clone() returns a Result of the same kind with a copy of the active
\* payload only, equal to the original and a value of its own; an operation
\* on one object (a write through as_mut, a consumption, a drop) leaves
\* every other object's kind and payload unchanged and its value undestructed.
C8_Clone ==
    /\ []C8_CloneResult
    /\ [][\A o \in DOMAIN objs : o # last'.slot => Untouched(o)]_vars

\* An Err object was cloned.
C8_Witness ==
    /\ last.op = "clone"
    /\ objs[last.slot].kind = ResultKind_Err
    /\ objs[last.arg.slot].kind = ResultKind_Err

ViewOps == {"view_ok", "view_err", "view_into_result", "view_drop"}

\* What as_ref() / as_mut() return: the kind of the original and a reference
\* to its active field.
C9_ViewMade ==
    last.op \in {"as_ref", "as_mut"} =>
        /\ view # <<>>
        /\ view[1].mut = (last.op = "as_mut")
        /\ view[1].res.kind = objs[last.slot].kind
        /\ DOMAIN view[1].res.data = DOMAIN objs[last.slot].data
        /\ Stored(view[1].res) = Ref(last.slot, Active(objs[last.slot].data))

\* C9: as_ref() and as_mut() return a view of the original's kind holding a
\* reference to the original's active payload; creating, consuming or
\* dropping a view leaves the original and its value as they were; a write
\* through the as_mut view replaces the active value and keeps the kind.
C9_Views ==
    /\ []C9_ViewMade
    /\ [][last'.op \in {"as_ref", "as_mut"} \cup ViewOps =>
              /\ DOMAIN objs' = DOMAIN objs
              /\ \A o \in DOMAIN objs : Untouched(o)]_vars
    /\ [][last'.op = "view_write" =>
              /\ DOMAIN objs' = DOMAIN objs
              /\ objs'[last'.slot].kind = objs[last'.slot].kind
              /\ DOMAIN objs'[last'.slot].data = DOMAIN objs[last'.slot].data
              /\ Stored(objs'[last'.slot]).val = last'.arg.v
              /\ Stored(objs'[last'.slot]).ty = Stored(objs[last'.slot]).ty
              /\ last'.settled =
                    {[id |-> Stored(objs[last'.slot]).id, handed |-> 0, dropped |-> 1]}]_vars

\* A mutable view of an Err object was made.
C9_Witness ==
    /\ last.op = "as_mut"
    /\ objs[last.slot].kind = ResultKind_Err
    /\ view[1].res.kind = ResultKind_Err

\* C10 as stated: the kind is one byte, 0 for Ok and 1 for Err, at offset 0,
\* immediately followed by the payload region, whose size is the larger of
\* the two sizes and whose alignment the larger of the two alignments; both
\* arms start at the same offset.
C10_AsStated ==
    lay.pc = "done" =>
        /\ lay.out.kind_size = 1 /\ lay.out.kind_offset = 0
        /\ lay.out.tag_ok = 0 /\ lay.out.tag_err = 1
        /\ lay.out.data_offset = lay.out.kind_offset + lay.out.kind_size
        /\ lay.out.data_size = Max(lay.T.size, lay.E.size)
        /\ lay.out.data_align = Max(lay.T.align, lay.E.align)
        /\ lay.out.ok_offset = lay.out.err_offset

\* C10 amended: as stated, but the payload region starts at the first
\* multiple of its alignment after the kind byte, and its size is the larger
\* of the two sizes rounded up to a multiple of its alignment.
C10_Layout ==
    lay.pc = "done" =>
        /\ lay.out.kind_size = 1 /\ lay.out.kind_offset = 0
        /\ lay.out.tag_ok = 0 /\ lay.out.tag_err = 1
        /\ lay.out.data_align = Max(lay.T.align, lay.E.align)
        /\ lay.out.data_offset % lay.out.data_align = 0
        /\ lay.out.data_offset >= lay.out.kind_offset + lay.out.kind_size
        /\ lay.out.data_offset < lay.out.kind_offset + lay.out.kind_size + lay.out.data_align
        /\ lay.out.data_size % lay.out.data_align = 0
        /\ lay.out.data_size >= Max(lay.T.size, lay.E.size)
        /\ lay.out.data_size < Max(lay.T.size, lay.E.size) + lay.out.data_align
        /\ lay.out.ok_offset = lay.out.data_offset
        /\ lay.out.err_offset = lay.out.data_offset

\* T is five bytes of alignment 1 and E four bytes of alignment 4: the
\* payload starts at offset 4 and is 8 bytes.
C10_Witness ==
    /\ lay.pc = "done"
    /\ lay.T = [size |-> 5, align |-> 1]
    /\ lay.E = [size |-> 4, align |-> 4]
    /\ lay.out.data_offset = 4
    /\ lay.out.data_size = 8

====
